---- MODULE Spec2Model ----
(***************************************************************************)
(* A model of the concurrent chunked-transfer engine of summon: the        *)
(* supervisor (summon.process), one chunk fetcher per planned range        *)
(* (summon.downloadFileForRange, getDataAndWriteToFile, readBody), the     *)
(* progress renderer (summon.startProgressBar) and the combiner            *)
(* (summon.combineChunks).                                                 *)
(*                                                                         *)
(* The resource is a sequence of bytes in which byte k has the value k, so *)
(* that a missing, repeated or misplaced byte of the output is visible.    *)
(* The fresh download path is modelled; the launcher (summon.download) and *)
(* the sender on sum.stop live outside summon.go and progress.go and are   *)
(* modelled from the design document.                                      *)
(***************************************************************************)
EXTENDS Integers, Sequences, FiniteSets, TLC

\* ------------------------------------------------------------ bounds
\* Largest content length of the resource.
MaxLen == 3

\* Largest contentLength handed to the range planner on its own.
MaxPlanLen == 30

\* Largest content length of the resource in the runs that check termination.
MaxLiveLen == 2

\* Largest total of the progress entry handed to printProgress on its own.
MaxTotal == 6

\* Largest number of cells of a bar printed by printProgress on its own.
MaxBar == 5

\* ------------------------------------------------------------ constants
\* MAX_CONN and DEFAULT_CONN are declared outside summon.go; setConcurrency only
\* reads them. The model takes two connections at most and one by default.
MAX_CONN == 2

DEFAULT_CONN == 1

\* getProgressSize() is declared outside summon.go too: the number of cells of
\* a bar, which process stores in progressSize. The model takes four cells.
getProgressSize == 4

VARIABLES
    concurrency,    \* sum.concurrency
    contentLength,  \* sum.fileDetails.contentLength: length of the resource
    err,            \* sum.err
    signalled,      \* the terminal's stop signal has been raised
    stopPending,    \* a sender is blocked on the unbuffered channel sum.stop
    chunks,         \* sum.fileDetails.chunks: index -> [data, pos]
    tempOutFile,    \* content of sum.fileDetails.tempOutFile
    finalFile,      \* content of the final destination path, or Absent
    p,              \* sum.progressBar.p: index -> [curr, total]
    wg,             \* counter of the fetchers' wait group
    pWg,            \* counter of the progress bar's wait group
    fpc,            \* position of each downloadFileForRange goroutine
    ferr,           \* each fetcher's local err
    status,         \* response.StatusCode seen by each fetcher
    bodyPos,        \* bytes each fetcher has read from its response body
    pend,           \* readBody's (r, err) between body.Read and the increment
    ppc,            \* position of process
    ret,            \* value returned by process
    ci,             \* loop index i of combineChunks
    rpc,            \* position of startProgressBar
    rIdx,           \* loop index i of the renderer's print loops
    finalFrame,     \* the progress values printed by the case <-stop frame
    finishOrder,    \* indices of the fetchers in the order they called wg.Done
    openFiles,      \* the open file handles: temp output file, chunk files
    progressSize,   \* the package variable progressSize: cells of a bar
    bar             \* the bar of the line printProgress printed last

vars == <<concurrency, contentLength, err, signalled, stopPending, chunks,
          tempOutFile, finalFile, p, wg, pWg, fpc, ferr, status, bodyPos, pend,
          ppc, ret, ci, rpc, rIdx, finalFrame, finishOrder, openFiles, progressSize, bar>>

\* ------------------------------------------------------------ values
\* len(buf) of getDataAndWriteToFile: at most this many bytes per body.Read.
BufSize == 500

Absent == <<-1>>

\* A file that is at the final destination path before the job runs.
OldFile == <<0>>

Nil == [kind |-> "nil", by |-> -1]

Error(k, i) == [kind |-> k, by |-> i]

\* A stop that is no error: the fetcher returns nil when it is told to stop.
ErrGracefulShutdownNil(i) == Nil

\* The error a fetcher returns when it receives from sum.stop.
ErrGracefulShutdown(i) == Error("shutdown", i)

Min(a, b) == IF a < b THEN a ELSE b

\* The indices of the planned chunks: 0 .. N-1.
Idx == 0 .. (concurrency - 1)

\* The whole resource, as one unranged request returns it.
resource == [k \in 1 .. contentLength |-> k]

NoPending == [r |-> 0, e |-> "nil"]

\* The handle sum.fileDetails.tempOutFile.
TempHandle == <<"temp", 0>>

\* The handle sum.fileDetails.chunks[i].
ChunkHandle(i) == <<"chunk", i>>

\* ------------------------------------------------------------ NewSummon
\* setConcurrency: the default for c <= 0, capped at MAX_CONN.
setConcurrency(c) ==
    IF c <= 0 THEN DEFAULT_CONN
    ELSE IF c >= MAX_CONN THEN MAX_CONN
    ELSE c

\* The state NewSummon leaves: empty maps, the unbuffered stop channel, the
\* temp output file created and empty. The resource has a byte at least for
\* every connection, so that every planned range is a well-formed byte range.
Init ==
    /\ \E c \in 0 .. (MAX_CONN + 1) : concurrency = setConcurrency(c)
    /\ contentLength \in concurrency .. MaxLen
    /\ err = Nil
    /\ signalled = FALSE
    /\ stopPending = FALSE
    /\ chunks = << >>
    /\ tempOutFile = << >>
    /\ finalFile = Absent
    /\ p = << >>
    /\ wg = 0
    /\ pWg = 0
    /\ fpc = [i \in Idx |-> "idle"]
    /\ ferr = [i \in Idx |-> Nil]
    /\ status = [i \in Idx |-> 0]
    /\ bodyPos = [i \in Idx |-> 0]
    /\ pend = [i \in Idx |-> NoPending]
    /\ ppc = "start"
    /\ ret = Nil
    /\ ci = 0
    /\ rpc = "idle"
    /\ rIdx = 0
    /\ finalFrame = << >>
    /\ finishOrder = << >>
    /\ openFiles = {TempHandle}
    /\ progressSize = 0
    /\ bar = << >>

\* ------------------------------------------------------------ range plan
\* download splits contentLength into concurrency spans of contentLength \div
\* concurrency bytes; the last span runs to the last byte.
split == contentLength \div concurrency

rangeStart(i) == i * split

\* A plan whose last span does not take the remainder.
rangeEndEqualSpans(i) == (i + 1) * split - 1

rangeEnd(i) == IF i = concurrency - 1 THEN contentLength - 1 ELSE (i + 1) * split - 1

\* Bytes lo .. hi (0-based, inclusive) of the resource.
slice(lo, hi) == SubSeq(resource, lo + 1, hi + 1)

rangeLen(i) == rangeEnd(i) - rangeStart(i) + 1

\* ------------------------------------------------------------ process
\* process, lines 104-111, the downloader succeeding: download opens one chunk
\* file and one progress entry per range, adds every fetcher to wg and starts it.
process_download ==
    /\ ppc = "start"
    /\ chunks' = [i \in Idx |-> [data |-> << >>, pos |-> 0]]
    /\ p' = [i \in Idx |-> [curr |-> 0, total |-> rangeLen(i)]]
    /\ wg' = concurrency
    /\ fpc' = [i \in Idx |-> "request"]
    /\ ppc' = "bar"
    /\ openFiles' = openFiles \cup {ChunkHandle(i) : i \in Idx}
    /\ progressSize' = getProgressSize
    /\ UNCHANGED <<concurrency, contentLength, err, signalled, stopPending,
                   tempOutFile, finalFile, pWg, ferr, status, bodyPos, pend, ret,
                   ci, rpc, rIdx, finalFrame, finishOrder, bar>>

\* process, lines 109-111, the downloader failing (the probe): process returns
\* its error at once.
process_downloadFails ==
    /\ ppc = "start"
    /\ ret' = Error("download", -1)
    /\ ppc' = "done"
    /\ progressSize' = getProgressSize
    /\ UNCHANGED <<concurrency, contentLength, err, signalled, stopPending, chunks,
                   tempOutFile, finalFile, p, wg, pWg, fpc, ferr, status, bodyPos,
                   pend, ci, rpc, rIdx, finalFrame, finishOrder, openFiles, bar>>

\* process, lines 113-117: the renderer's wait group and goroutine.
process_startProgressBar ==
    /\ ppc = "bar"
    /\ pWg' = 1
    /\ rpc' = "select"
    /\ ppc' = "wait"
    /\ UNCHANGED <<concurrency, contentLength, err, signalled, stopPending, chunks,
                   tempOutFile, finalFile, p, wg, fpc, ferr, status, bodyPos, pend,
                   ret, ci, rIdx, finalFrame, finishOrder, openFiles, progressSize, bar>>

\* A wg.Wait() that does not wait.
wgWaitReturnsAtOnce == TRUE

\* wg.Wait() returns once the counter is zero.
wgWaitReturns == wg = 0

\* process, line 118: wg.Wait(), then the deferred closes are registered.
process_wgWait ==
    /\ ppc = "wait"
    /\ wgWaitReturns
    /\ ppc' = "stop"
    /\ UNCHANGED <<concurrency, contentLength, err, signalled, stopPending, chunks,
                   tempOutFile, finalFile, p, wg, pWg, fpc, ferr, status, bodyPos,
                   pend, ret, ci, rpc, rIdx, finalFrame, finishOrder, openFiles, progressSize, bar>>

\* process, line 126, and startProgressBar, line 47: the send on the unbuffered
\* channel stop meets the renderer's receive in its select.
process_sendStop ==
    /\ ppc = "stop"
    /\ rpc = "select"
    /\ ppc' = "pwait"
    /\ rpc' = "final"
    /\ rIdx' = 0
    /\ UNCHANGED <<concurrency, contentLength, err, signalled, stopPending, chunks,
                   tempOutFile, finalFile, p, wg, pWg, fpc, ferr, status, bodyPos,
                   pend, ret, ci, finalFrame, finishOrder, openFiles, progressSize, bar>>

\* process, line 129: pWg.Wait().
process_pWgWait ==
    /\ ppc = "pwait"
    /\ pWg = 0
    /\ ppc' = "check"
    /\ UNCHANGED <<concurrency, contentLength, err, signalled, stopPending, chunks,
                   tempOutFile, finalFile, p, wg, pWg, fpc, ferr, status, bodyPos,
                   pend, ret, ci, rpc, rIdx, finalFrame, finishOrder, openFiles, progressSize, bar>>

\* process, lines 121-124: the deferred Close() of the temp output file and of
\* every chunk file, run when process returns after line 124; what stays open.
deferredClose == openFiles \ ({TempHandle} \cup {ChunkHandle(i) : i \in DOMAIN chunks})

\* A process that never looks at sum.err.
errIsSetNever == FALSE

\* The test of line 131.
errIsSet == err # Nil

\* process, lines 131-135: return sum.err if set, else call combineChunks.
process_checkErr ==
    /\ ppc = "check"
    /\ IF errIsSet
       THEN /\ ret' = err
            /\ ppc' = "done"
       ELSE /\ ret' = ret
            /\ ppc' = "combine"
    /\ ci' = 0
    /\ openFiles' = IF errIsSet THEN deferredClose ELSE openFiles
    /\ UNCHANGED <<concurrency, contentLength, err, signalled, stopPending, chunks,
                   tempOutFile, finalFile, p, wg, pWg, fpc, ferr, status, bodyPos,
                   pend, rpc, rIdx, finalFrame, finishOrder, progressSize, bar>>

\* ------------------------------------------------------------ fetcher
\* The statuses a server may answer a ranged GET with.
Statuses == {200, 206, 404}

\* A fetcher that takes the body of any response.
acceptedAny(st) == TRUE

\* The test of line 270, negated: 200 or 206.
accepted(st) == st = 200 \/ st = 206

\* The body of the response to the GET with "Range: bytes=start-end" of chunk i:
\* the range under 206 (Partial Content), the whole resource under 200.
body(i) == IF status[i] = 206 THEN slice(rangeStart(i), rangeEnd(i)) ELSE resource

\* A fetcher that stores its err in sum.err whether nil or not.
recordErrAlways(cur, e) == e

\* if err != nil { sum.Lock(); sum.err = err; sum.Unlock(); return }
recordErr(cur, e) == IF e # Nil THEN e ELSE cur

\* downloadFileForRange, lines 261-267: client.Do fails.
downloadFileForRange_doFails(i) ==
    /\ fpc[i] = "request"
    /\ ferr' = [ferr EXCEPT ![i] = Error("do", i)]
    /\ fpc' = [fpc EXCEPT ![i] = "record"]
    /\ UNCHANGED <<concurrency, contentLength, err, signalled, stopPending, chunks,
                   tempOutFile, finalFile, p, wg, pWg, status, bodyPos, pend, ppc,
                   ret, ci, rpc, rIdx, finalFrame, finishOrder, openFiles, progressSize, bar>>

\* downloadFileForRange, lines 261-276: the response arrives with status st.
downloadFileForRange_response(i, st) ==
    /\ fpc[i] = "request"
    /\ status' = [status EXCEPT ![i] = st]
    /\ IF accepted(st)
       THEN /\ fpc' = [fpc EXCEPT ![i] = "loop"]
            /\ ferr' = ferr
       ELSE /\ fpc' = [fpc EXCEPT ![i] = "record"]
            /\ ferr' = [ferr EXCEPT ![i] = Error("status", i)]
    /\ UNCHANGED <<concurrency, contentLength, err, signalled, stopPending, chunks,
                   tempOutFile, finalFile, p, wg, pWg, bodyPos, pend, ppc, ret, ci,
                   rpc, rIdx, finalFrame, finishOrder, openFiles, progressSize, bar>>

\* getDataAndWriteToFile, lines 380-382: the select receives from sum.stop, which
\* takes the one value its blocked sender offers.
getDataAndWriteToFile_stop(i) ==
    /\ fpc[i] = "loop"
    /\ stopPending
    /\ stopPending' = FALSE
    /\ ferr' = [ferr EXCEPT ![i] = ErrGracefulShutdown(i)]
    /\ fpc' = [fpc EXCEPT ![i] = "record"]
    /\ UNCHANGED <<concurrency, contentLength, err, signalled, chunks, tempOutFile,
                   finalFile, p, wg, pWg, status, bodyPos, pend, ppc, ret, ci, rpc,
                   rIdx, finalFrame, finishOrder, openFiles, progressSize, bar>>

\* f.Write(b) at the file's cursor.
Write(f, b) ==
    [data |-> SubSeq(f.data, 1, f.pos) \o b
                 \o SubSeq(f.data, f.pos + Len(b) + 1, Len(f.data)),
     pos |-> f.pos + Len(b)]

\* What getDataAndWriteToFile does with the err readBody returns, lines 384-391:
\* io.EOF ends the fetch with nil, any other error is returned.
loopExit(i, e) == IF e = "EOF" THEN Nil ELSE Error("read", i)

\* readBody, lines 397-401, reached through the default case of the select (no
\* sender on sum.stop): body.Read returns r bytes and err e; f.Write stores w of
\* them, its result being dropped.
readBody_read(i, r, e, w) ==
    /\ fpc[i] = "loop"
    /\ ~stopPending
    /\ e = "nil" => r > 0
    /\ e = "EOF" => r = Len(body(i)) - bodyPos[i]
    /\ bodyPos' = [bodyPos EXCEPT ![i] = @ + r]
    /\ chunks' = [chunks EXCEPT ![i] =
                     Write(@, SubSeq(body(i), bodyPos[i] + 1, bodyPos[i] + w))]
    /\ IF r > 0
       THEN /\ pend' = [pend EXCEPT ![i] = [r |-> r, e |-> e]]
            /\ fpc' = [fpc EXCEPT ![i] = "incr"]
            /\ ferr' = ferr
       ELSE /\ pend' = pend
            /\ fpc' = [fpc EXCEPT ![i] = "record"]
            /\ ferr' = [ferr EXCEPT ![i] = loopExit(i, e)]
    /\ UNCHANGED <<concurrency, contentLength, err, signalled, stopPending,
                   tempOutFile, finalFile, p, wg, pWg, status, ppc, ret, ci, rpc,
                   rIdx, finalFrame, finishOrder, openFiles, progressSize, bar>>

\* The results body.Read may give with left bytes of the body unread, and the
\* byte counts f.Write may store of the r bytes read.
readBody(i) ==
    \E r \in 0 .. Min(BufSize, Len(body(i)) - bodyPos[i]) :
        \E e \in {"nil", "EOF", "read"}, w \in 0 .. r :
            readBody_read(i, r, e, w)

\* An increment written as an assignment: curr = int64(r).
addCurrAssign(c, r) == r

\* sum.progressBar.p[index].curr += int64(r)
addCurr(c, r) == c + r

\* A fetcher that counts every byte on the first entry of the map.
progressIndexFirst(i) == 0

\* sum.progressBar.p[index]: the entry fetcher i adds to is that of its index.
progressIndex(i) == i

\* readBody, lines 402-411: the increment under the progress bar's lock, then the
\* return of err to the loop.
readBody_incr(i) ==
    /\ fpc[i] = "incr"
    /\ p' = [p EXCEPT ![progressIndex(i)].curr = addCurr(@, pend[i].r)]
    /\ pend' = [pend EXCEPT ![i] = NoPending]
    /\ IF pend[i].e = "nil"
       THEN /\ fpc' = [fpc EXCEPT ![i] = "loop"]
            /\ ferr' = ferr
       ELSE /\ fpc' = [fpc EXCEPT ![i] = "record"]
            /\ ferr' = [ferr EXCEPT ![i] = loopExit(i, pend[i].e)]
    /\ UNCHANGED <<concurrency, contentLength, err, signalled, stopPending, chunks,
                   tempOutFile, finalFile, wg, pWg, status, bodyPos, ppc, ret, ci,
                   rpc, rIdx, finalFrame, finishOrder, openFiles, progressSize, bar>>

\* downloadFileForRange, the three "if err != nil" blocks (lines 262-267, 270-276,
\* 278-284): the error, if any, is stored in sum.err under the lock.
downloadFileForRange_record(i) ==
    /\ fpc[i] = "record"
    /\ err' = recordErr(err, ferr[i])
    /\ fpc' = [fpc EXCEPT ![i] = "exit"]
    /\ UNCHANGED <<concurrency, contentLength, signalled, stopPending, chunks,
                   tempOutFile, finalFile, p, wg, pWg, ferr, status, bodyPos, pend,
                   ppc, ret, ci, rpc, rIdx, finalFrame, finishOrder, openFiles, progressSize, bar>>

\* downloadFileForRange, line 247: the deferred wg.Done() runs at the return.
downloadFileForRange_return(i) ==
    /\ fpc[i] = "exit"
    /\ wg' = wg - 1
    /\ fpc' = [fpc EXCEPT ![i] = "done"]
    /\ finishOrder' = Append(finishOrder, i)
    /\ UNCHANGED <<concurrency, contentLength, err, signalled, stopPending, chunks,
                   tempOutFile, finalFile, p, pWg, ferr, status, bodyPos, pend, ppc,
                   ret, ci, rpc, rIdx, finalFrame, openFiles, progressSize, bar>>

\* The terminal's stop signal: one value is offered, once, on sum.stop while the
\* job runs; the sender blocks until a fetcher receives it.
signalStop ==
    /\ ~signalled
    /\ ppc # "done"
    /\ signalled' = TRUE
    /\ stopPending' = TRUE
    /\ UNCHANGED <<concurrency, contentLength, err, chunks, tempOutFile, finalFile,
                   p, wg, pWg, fpc, ferr, status, bodyPos, pend, ppc, ret, ci, rpc,
                   rIdx, finalFrame, finishOrder, openFiles, progressSize, bar>>

\* ------------------------------------------------------------ renderer
\* len(sum.progressBar.p)
lenP == Cardinality(DOMAIN p)

\* printProgress, line 64: math.Round((curr / total) * 100), half away from zero.
percent(pr) == (200 * pr.curr + pr.total) \div (2 * pr.total)

\* printProgress, line 66: n := int((percent / 100) * float64(progressSize))
filledUpTo(pr) == (percent(pr) * progressSize) \div 100

\* printProgress, lines 69-75: the cells between the brackets; cell i, counted
\* from 0, is ">" if i <= n and a blank otherwise.
printProgress(pr) ==
    [c \in 1 .. progressSize |-> IF c - 1 <= filledUpTo(pr) THEN ">" ELSE " "]

\* startProgressBar, lines 32-45: the ticker fires and a frame is printed, every
\* line read under the read lock; the frame goes to the terminal and leaves the
\* job's state as it is.
startProgressBar_tick ==
    /\ rpc = "select"
    /\ UNCHANGED vars

\* startProgressBar, lines 48-53: one line of the frame printed on stop.
startProgressBar_finalPrint ==
    /\ rpc = "final"
    /\ rIdx < lenP
    /\ finalFrame' = Append(finalFrame, [index |-> rIdx, curr |-> p[rIdx].curr])
    /\ rIdx' = rIdx + 1
    /\ bar' = printProgress(p[rIdx])
    /\ UNCHANGED <<concurrency, contentLength, err, signalled, stopPending, chunks,
                   tempOutFile, finalFile, p, wg, pWg, fpc, ferr, status, bodyPos,
                   pend, ppc, ret, ci, rpc, finishOrder, openFiles, progressSize>>

\* A renderer that leaves the loop over the lines before the last line.
frameDoneAtOnce == TRUE

\* startProgressBar, line 49: the loop over the lines of the final frame ends
\* when i reaches len(sum.progressBar.p).
frameDone == rIdx = lenP

\* A renderer that returns without telling its wait group.
wgDoneMissing(n) == n

\* startProgressBar, line 25: defer wg.Done() on the wait group process waits on.
wgDone(n) == n - 1

\* startProgressBar, lines 54 and 25: return, and the deferred wg.Done().
startProgressBar_return ==
    /\ rpc = "final"
    /\ frameDone
    /\ rpc' = "done"
    /\ pWg' = wgDone(pWg)
    /\ UNCHANGED <<concurrency, contentLength, err, signalled, stopPending, chunks,
                   tempOutFile, finalFile, p, wg, fpc, ferr, status, bodyPos, pend,
                   ppc, ret, ci, rIdx, finalFrame, finishOrder, openFiles, progressSize, bar>>

\* ------------------------------------------------------------ combiner
\* len(sum.fileDetails.chunks)
lenChunks == Cardinality(DOMAIN chunks)

\* A combiner without the Seek: the copy starts where the fetcher left the cursor.
seekStartMissing(f) == f.pos

\* handle.Seek(0, 0): the cursor the copy starts from.
seekStart(f) == 0

\* The loop's step, i++.
nextChunk(i) == i + 1

\* A combiner that may leave its loop before the last chunk.
copiesDoneAlways == TRUE

\* combineChunks, line 214: the loop ends when i reaches len(chunks).
copiesDone == ci >= lenChunks

\* combineChunks, lines 214-219: the map holds no handle for index i.
combineChunks_nilHandle ==
    /\ ppc = "combine"
    /\ ci < lenChunks
    /\ ci \notin DOMAIN chunks
    /\ ret' = Error("nilhandle", ci)
    /\ ppc' = "done"
    /\ openFiles' = deferredClose
    /\ UNCHANGED <<concurrency, contentLength, err, signalled, stopPending, chunks,
                   tempOutFile, finalFile, p, wg, pWg, fpc, ferr, status, bodyPos,
                   pend, ci, rpc, rIdx, finalFrame, finishOrder, progressSize, bar>>

\* combineChunks, lines 214-227: chunk i is copied from the sought cursor to its
\* end onto the temp file.
combineChunks_copy ==
    /\ ppc = "combine"
    /\ ci < lenChunks
    /\ ci \in DOMAIN chunks
    /\ tempOutFile' = tempOutFile
                        \o SubSeq(chunks[ci].data, seekStart(chunks[ci]) + 1,
                                  Len(chunks[ci].data))
    /\ chunks' = [chunks EXCEPT ![ci].pos = Len(chunks[ci].data)]
    /\ ci' = nextChunk(ci)
    /\ UNCHANGED <<concurrency, contentLength, err, signalled, stopPending,
                   finalFile, p, wg, pWg, fpc, ferr, status, bodyPos, pend, ppc, ret,
                   rpc, rIdx, finalFrame, finishOrder, openFiles, progressSize, bar>>

\* combineChunks, lines 222-225: io.Copy fails after k bytes of chunk i.
combineChunks_copyFails(k) ==
    /\ ppc = "combine"
    /\ ci < lenChunks
    /\ ci \in DOMAIN chunks
    /\ k <= Len(chunks[ci].data)
    /\ tempOutFile' = tempOutFile \o SubSeq(chunks[ci].data, 1, k)
    /\ chunks' = [chunks EXCEPT ![ci].pos = k]
    /\ ret' = Error("copy", ci)
    /\ ppc' = "done"
    /\ openFiles' = deferredClose
    /\ UNCHANGED <<concurrency, contentLength, err, signalled, stopPending,
                   finalFile, p, wg, pWg, fpc, ferr, status, bodyPos, pend, ci, rpc,
                   rIdx, finalFrame, finishOrder, progressSize, bar>>

\* combineChunks, lines 229-241: the temp file becomes the final file.
combineChunks_rename ==
    /\ ppc = "combine"
    /\ copiesDone
    /\ finalFile' = tempOutFile
    /\ ret' = Nil
    /\ ppc' = "done"
    /\ openFiles' = deferredClose
    /\ UNCHANGED <<concurrency, contentLength, err, signalled, stopPending, chunks,
                   tempOutFile, p, wg, pWg, fpc, ferr, status, bodyPos, pend, ci,
                   rpc, rIdx, finalFrame, finishOrder, progressSize, bar>>

\* combineChunks, lines 237-239: os.Rename fails.
combineChunks_renameFails ==
    /\ ppc = "combine"
    /\ copiesDone
    /\ ret' = Error("rename", -1)
    /\ ppc' = "done"
    /\ openFiles' = deferredClose
    /\ UNCHANGED <<concurrency, contentLength, err, signalled, stopPending, chunks,
                   tempOutFile, finalFile, p, wg, pWg, fpc, ferr, status, bodyPos,
                   pend, ci, rpc, rIdx, finalFrame, finishOrder, progressSize, bar>>

\* ------------------------------------------------------------ specification
Next ==
    \/ process_download
    \/ process_downloadFails
    \/ process_startProgressBar
    \/ process_wgWait
    \/ process_sendStop
    \/ process_pWgWait
    \/ process_checkErr
    \/ \E i \in Idx : downloadFileForRange_doFails(i)
    \/ \E i \in Idx, st \in Statuses : downloadFileForRange_response(i, st)
    \/ \E i \in Idx : getDataAndWriteToFile_stop(i)
    \/ \E i \in Idx : readBody(i)
    \/ \E i \in Idx : readBody_incr(i)
    \/ \E i \in Idx : downloadFileForRange_record(i)
    \/ \E i \in Idx : downloadFileForRange_return(i)
    \/ signalStop
    \/ startProgressBar_tick
    \/ startProgressBar_finalPrint
    \/ startProgressBar_return
    \/ combineChunks_copy
    \/ \E k \in 0 .. MaxLen : combineChunks_copyFails(k)
    \/ combineChunks_rename
    \/ combineChunks_renameFails

Spec == Init /\ [][Next]_vars

\* The steps of the goroutine that runs process, the send on stop included.
processStep ==
    \/ process_download
    \/ process_downloadFails
    \/ process_startProgressBar
    \/ process_wgWait
    \/ process_sendStop
    \/ process_pWgWait
    \/ process_checkErr
    \/ combineChunks_copy
    \/ \E k \in 0 .. MaxLen : combineChunks_copyFails(k)
    \/ combineChunks_rename
    \/ combineChunks_renameFails

\* The steps of the goroutine that runs downloadFileForRange for index i.
fetcherStep(i) ==
    \/ downloadFileForRange_doFails(i)
    \/ \E st \in Statuses : downloadFileForRange_response(i, st)
    \/ getDataAndWriteToFile_stop(i)
    \/ readBody(i)
    \/ readBody_incr(i)
    \/ downloadFileForRange_record(i)
    \/ downloadFileForRange_return(i)

\* The steps of the goroutine that runs startProgressBar once it has received
\* from stop.
rendererStep ==
    \/ startProgressBar_finalPrint
    \/ startProgressBar_return

\* The Go scheduler runs every goroutine that can run: a goroutine that stays
\* able to take a step takes one. Every request gets its answer or its error and
\* every body its end, so a fetcher's step counts as one it can take. Nothing is
\* asked of the terminal's stop signal or of the ticker.
Fairness ==
    /\ WF_vars(processStep)
    /\ \A i \in 0 .. (MAX_CONN - 1) : WF_vars(i \in Idx /\ fetcherStep(i))
    /\ WF_vars(rendererStep)

\* The state NewSummon leaves, for the resources of at most MaxLiveLen bytes.
InitLive ==
    /\ \E c \in 0 .. (MAX_CONN + 1) : concurrency = setConcurrency(c)
    /\ contentLength \in concurrency .. MaxLiveLen
    /\ err = Nil
    /\ signalled = FALSE
    /\ stopPending = FALSE
    /\ chunks = << >>
    /\ tempOutFile = << >>
    /\ finalFile = Absent
    /\ p = << >>
    /\ wg = 0
    /\ pWg = 0
    /\ fpc = [i \in Idx |-> "idle"]
    /\ ferr = [i \in Idx |-> Nil]
    /\ status = [i \in Idx |-> 0]
    /\ bodyPos = [i \in Idx |-> 0]
    /\ pend = [i \in Idx |-> NoPending]
    /\ ppc = "start"
    /\ ret = Nil
    /\ ci = 0
    /\ rpc = "idle"
    /\ rIdx = 0
    /\ finalFrame = << >>
    /\ finishOrder = << >>
    /\ openFiles = {TempHandle}
    /\ progressSize = 0
    /\ bar = << >>

SpecLive == InitLive /\ [][Next]_vars /\ Fairness

\* The state in which process calls combineChunks (line 135) for a job of
\* concurrency planned chunks whose map holds handles for the indices in S only:
\* every GET was answered 200 and read to its end, and each file holds the bytes
\* its writes stored, a prefix of the body.
InitCombine ==
    /\ concurrency \in 1 .. MAX_CONN
    /\ contentLength \in concurrency .. MaxLen
    /\ err = Nil
    /\ signalled = FALSE
    /\ stopPending = FALSE
    /\ \E S \in SUBSET Idx :
          chunks \in [S -> {[data |-> SubSeq(resource, 1, n), pos |-> n] :
                              n \in 0 .. contentLength}]
    /\ tempOutFile = << >>
    /\ finalFile \in {Absent, OldFile}
    /\ p = [i \in Idx |-> [curr |-> contentLength, total |-> rangeLen(i)]]
    /\ wg = 0
    /\ pWg = 0
    /\ fpc = [i \in Idx |-> "done"]
    /\ ferr = [i \in Idx |-> Nil]
    /\ status = [i \in Idx |-> 200]
    /\ bodyPos = [i \in Idx |-> contentLength]
    /\ pend = [i \in Idx |-> NoPending]
    /\ ppc = "combine"
    /\ ret = Nil
    /\ ci = 0
    /\ rpc = "done"
    /\ rIdx = concurrency
    /\ finalFrame = [k \in 1 .. concurrency |-> [index |-> k - 1, curr |-> contentLength]]
    /\ finishOrder = [k \in 1 .. concurrency |-> k - 1]
    /\ openFiles = {TempHandle} \cup {ChunkHandle(i) : i \in DOMAIN chunks}
    /\ progressSize = getProgressSize
    /\ bar = printProgress(p[concurrency - 1])

NextCombine ==
    \/ combineChunks_nilHandle
    \/ combineChunks_copy
    \/ \E k \in 0 .. MaxLen : combineChunks_copyFails(k)
    \/ combineChunks_rename
    \/ combineChunks_renameFails

\* combineChunks alone, over every map of chunk handles.
SpecCombine == InitCombine /\ [][NextCombine]_vars

\* The range planner on its own: the state NewSummon leaves for any number of
\* connections asked for and any contentLength of 1 .. MaxPlanLen, and the step
\* of download that plans the ranges and creates the chunks.
InitPlan ==
    /\ \E c \in 0 .. (MAX_CONN + 1) : concurrency = setConcurrency(c)
    /\ contentLength \in 1 .. MaxPlanLen
    /\ err = Nil
    /\ signalled = FALSE
    /\ stopPending = FALSE
    /\ chunks = << >>
    /\ tempOutFile = << >>
    /\ finalFile = Absent
    /\ p = << >>
    /\ wg = 0
    /\ pWg = 0
    /\ fpc = [i \in Idx |-> "idle"]
    /\ ferr = [i \in Idx |-> Nil]
    /\ status = [i \in Idx |-> 0]
    /\ bodyPos = [i \in Idx |-> 0]
    /\ pend = [i \in Idx |-> NoPending]
    /\ ppc = "start"
    /\ ret = Nil
    /\ ci = 0
    /\ rpc = "idle"
    /\ rIdx = 0
    /\ finalFrame = << >>
    /\ finishOrder = << >>
    /\ openFiles = {TempHandle}
    /\ progressSize = 0
    /\ bar = << >>

NextPlan == process_download

SpecPlan == InitPlan /\ [][NextPlan]_vars

\* printProgress on its own: the renderer has received the stop signal and is
\* about to print the one line of a job of one chunk, for any total of
\* 1 .. MaxTotal, any curr of 0 .. total and any bar of 1 .. MaxBar cells. The
\* fetcher has ended, with a read error if it stopped short of total.
InitBar ==
    /\ concurrency = 1
    /\ contentLength \in 1 .. MaxTotal
    /\ \E curr \in 0 .. contentLength :
          /\ p = [i \in Idx |-> [curr |-> curr, total |-> contentLength]]
          /\ chunks = [i \in Idx |-> [data |-> SubSeq(resource, 1, curr), pos |-> curr]]
          /\ bodyPos = [i \in Idx |-> curr]
          /\ ferr = [i \in Idx |-> IF curr < contentLength THEN Error("read", i) ELSE Nil]
          /\ err = IF curr < contentLength THEN Error("read", 0) ELSE Nil
    /\ progressSize \in 1 .. MaxBar
    /\ signalled = FALSE
    /\ stopPending = FALSE
    /\ tempOutFile = << >>
    /\ finalFile = Absent
    /\ wg = 0
    /\ pWg = 1
    /\ fpc = [i \in Idx |-> "done"]
    /\ status = [i \in Idx |-> 206]
    /\ pend = [i \in Idx |-> NoPending]
    /\ ppc = "pwait"
    /\ ret = Nil
    /\ ci = 0
    /\ rpc = "final"
    /\ rIdx = 0
    /\ finalFrame = << >>
    /\ finishOrder = <<0>>
    /\ openFiles = {TempHandle, ChunkHandle(0)}
    /\ bar = << >>

NextBar ==
    \/ startProgressBar_finalPrint
    \/ startProgressBar_return

SpecBar == InitBar /\ [][NextBar]_vars

\* ------------------------------------------------------------ claims
\* combineChunks has been called.
combineInvoked ==
    \/ ppc = "combine"
    \/ ppc = "done" /\ ret.kind \in {"nil", "nilhandle", "copy", "rename"}

\* A fetcher that has passed the store into sum.err.
recorded(i) == fpc[i] \in {"exit", "done"}

\* C1: whenever a fetcher has recorded an error in sum.err, combineChunks is not
\* invoked, nothing is copied to the temp file, no final file appears, and the
\* value process returns is sum.err.
C1_NoCombineOnError ==
    err # Nil =>
        /\ ~combineInvoked
        /\ tempOutFile = << >>
        /\ finalFile = Absent
        /\ ppc = "done" => ret = err

\* C1 witness: process has returned the error of a job of two fetchers, one of
\* which had stored bytes in its chunk file.
C1_Witness ==
    /\ ppc = "done"
    /\ err # Nil
    /\ ret = err
    /\ concurrency = 2
    /\ \E i \in Idx : Len(chunks[i].data) > 0

\* C2: from the return of wg.Wait() on, and so whenever combineChunks reads a
\* chunk file, every launched fetcher has run its wg.Done(): none can still
\* write to a chunk file or to sum.err.
C2_JoinBeforeCombine ==
    (ppc \in {"stop", "pwait", "check", "combine"} \/ combineInvoked) =>
        /\ wg = 0
        /\ \A i \in Idx : fpc[i] = "done"

\* C2 witness: combineChunks has copied the first of two chunks.
C2_Witness ==
    /\ ppc = "combine"
    /\ concurrency = 2
    /\ ci = 1
    /\ tempOutFile # << >>

\* C3: a job that ends successfully (process returns nil after the rename) leaves
\* a final file equal, byte for byte, to the whole resource.
C3_RoundTrip ==
    (ppc = "done" /\ ret = Nil) => finalFile = resource

\* The data of the chunk files 0 .. n-1, one after the other.
RECURSIVE ConcatChunks(_)
ConcatChunks(n) == IF n = 0 THEN << >> ELSE ConcatChunks(n - 1) \o chunks[n - 1].data

\* C4: while combineChunks runs, the temp file is exactly the chunk files below
\* the loop index, each in full, in ascending order; after the rename the final
\* file is chunk 0, chunk 1, ... chunk N-1.
C4_AscendingOrder ==
    /\ ppc = "combine" => tempOutFile = ConcatChunks(ci)
    /\ (ppc = "done" /\ ret = Nil) => finalFile = ConcatChunks(concurrency)

\* C4 witness: two chunks, both holding bytes, the fetcher of chunk 1 having
\* finished before the fetcher of chunk 0, have been combined and renamed.
C4_Witness ==
    /\ ppc = "done"
    /\ ret = Nil
    /\ concurrency = 2
    /\ finishOrder = <<1, 0>>
    /\ chunks[0].data # << >>
    /\ chunks[1].data # << >>
    /\ finalFile = chunks[0].data \o chunks[1].data

\* C5: when combineChunks has returned and an index of 0 .. N-1 had no handle in
\* the map, it returned an error without reaching the rename, and the final
\* path holds what it held before: nothing, or the file that was there.
C5_MissingChunkFails ==
    (ppc = "done" /\ \E i \in Idx : i \notin DOMAIN chunks) =>
        /\ ret.kind \in {"nilhandle", "copy"}
        /\ finalFile \in {Absent, OldFile}

\* C6: once a fetcher has left its read loop, curr of its index is its initial
\* value, 0, plus every byte count body.Read returned to that fetcher.
C6_NoLostIncrement ==
    \A i \in DOMAIN p :
        fpc[i] \in {"record", "exit", "done"} => p[i].curr = 0 + bodyPos[i]

\* C6 witness: two fetchers have terminated, each having read two bytes, and each
\* entry counts them.
C6_Witness ==
    /\ concurrency = 2
    /\ \A i \in Idx : fpc[i] = "done" /\ bodyPos[i] = 2 /\ p[i].curr = 2

\* C7: every progress entry has 0 <= curr <= total in every reachable state, and
\* no step decreases the curr of an entry.
C7_CurrWithinTotal ==
    /\ [](\A i \in DOMAIN p : 0 <= p[i].curr /\ p[i].curr <= p[i].total)
    /\ [][\A i \in DOMAIN p : i \in DOMAIN p' => p'[i].curr >= p[i].curr]_vars

\* C8: once an error is recorded in sum.err, a fetcher at the head of its read
\* loop leaves it only by the cancellation, returning ErrGracefulShutdown: it
\* reads no further.
C8_CancelOnFailure ==
    [][\A i \in Idx :
          (err # Nil /\ fpc[i] = "loop" /\ fpc'[i] # "loop")
              => ferr'[i] = ErrGracefulShutdown(i)]_vars

\* C9: once the stop signal has been raised on sum.stop, every fetcher at the
\* head of its read loop leaves it by returning ErrGracefulShutdown.
C9_StopReachesEveryFetcher ==
    [][\A i \in Idx :
          (signalled /\ fpc[i] = "loop" /\ fpc'[i] # "loop")
              => ferr'[i] = ErrGracefulShutdown(i)]_vars

\* C10: once a fetcher has failed and passed its store into sum.err, sum.err is
\* not nil and is the error of a fetcher that failed, and process returns
\* sum.err: one non-nil error, recorded by a failing fetcher.
C10_OneErrorReported ==
    (\E i \in Idx : recorded(i) /\ ferr[i] # Nil) =>
        /\ err # Nil
        /\ \E j \in Idx : recorded(j) /\ err = ferr[j]
        /\ ppc = "done" => ret = err

\* C10 witness: both fetchers of a job failed, with different errors, the one of
\* chunk 0 stored last, and process returned it.
C10_Witness ==
    /\ ppc = "done"
    /\ concurrency = 2
    /\ ferr[0] # Nil
    /\ ferr[1] # Nil
    /\ ferr[0].kind # ferr[1].kind
    /\ ret = ferr[0]

\* C11: the stop signal of the renderer is sent only after every fetcher has
\* been joined, process does not go past pWg.Wait() before the renderer has
\* returned, and the frame printed on the stop signal is printed once: one line
\* per chunk, in index order, each showing the curr its fetcher left behind; once
\* the final frame has begun the renderer never goes back to its select, so no
\* tick frame follows it.
C11_FinalFrameOnce ==
    /\ [](/\ rpc \in {"final", "done"} =>
              /\ wg = 0
              /\ \A i \in Idx : fpc[i] = "done"
              /\ Len(finalFrame) = rIdx
              /\ \A k \in 1 .. Len(finalFrame) :
                     finalFrame[k] = [index |-> k - 1, curr |-> p[k - 1].curr]
          /\ rpc = "final" => ppc = "pwait" /\ pWg = 1
          /\ rpc = "done" => Len(finalFrame) = lenP /\ pWg = 0
          /\ rpc \in {"idle", "select"} => finalFrame = << >>
          /\ (ppc \in {"check", "combine", "done"} /\ chunks # << >>) => rpc = "done")
    /\ [][/\ rpc \in {"final", "done"} =>
              /\ rpc' \in {"final", "done"}
              /\ p' = p
              /\ \/ finalFrame' = finalFrame
                 \/ /\ rpc = "final"
                    /\ finalFrame' = Append(finalFrame, [index |-> rIdx, curr |-> p[rIdx].curr])
          /\ rpc = "done" => rpc' = "done" /\ finalFrame' = finalFrame]_vars

\* Both fetchers have written, the final frame shows both chunks and process
\* has returned.
C11_Witness ==
    /\ concurrency = 2
    /\ ppc = "done"
    /\ rpc = "done"
    /\ Len(finalFrame) = 2
    /\ finalFrame[1].curr > 0
    /\ finalFrame[2].curr > 0

\* C12: when process has returned, on whichever path, every file handle is
\* closed: the temp output file and every chunk file.
C12_HandlesClosed == ppc = "done" => openFiles = {}

\* C13: in combineChunks the final destination file changes only by the rename,
\* which is the last step and is taken only after every chunk in the map has
\* been copied to its end; a return with an error (nil handle, failed copy,
\* failed rename) leaves the final file as it was, absent or with its old bytes.
C13_RenameLast ==
    [][/\ finalFile' # finalFile =>
              /\ ppc = "combine"
              /\ ci = lenChunks
              /\ \A i \in 0 .. (lenChunks - 1) :
                     i \in DOMAIN chunks /\ chunks[i].pos = Len(chunks[i].data)
              /\ finalFile' = tempOutFile
              /\ ret' = Nil
              /\ ppc' = "done"
       /\ (ppc = "combine" /\ ppc' = "done" /\ ret' # Nil) => finalFile' = finalFile]_vars

\* The copy of the second chunk failed after the first chunk had been copied,
\* and the file that was at the destination is still there.
C13_Witness ==
    /\ ppc = "done"
    /\ ret = Error("copy", 1)
    /\ tempOutFile # << >>
    /\ finalFile = OldFile

\* Sum of the lengths of the first n planned ranges.
RECURSIVE SumRangeLen(_)
SumRangeLen(n) == IF n = 0 THEN 0 ELSE SumRangeLen(n - 1) + rangeLen(n - 1)

\* C14: for every contentLength > 0 and every concurrency of 1 .. MAX_CONN the
\* planned ranges start at byte 0, end at the last byte, each begins right after
\* the one before it, no two share a byte, together they are exactly the bytes
\* 0 .. contentLength-1, their lengths add up to contentLength, and the chunks
\* and progress entries created for them carry the indices 0 .. N-1.
C14_RangesPartition ==
    /\ concurrency \in 1 .. MAX_CONN
    /\ rangeStart(0) = 0
    /\ rangeEnd(concurrency - 1) = contentLength - 1
    /\ \A i \in Idx : rangeLen(i) >= 0
    /\ \A i \in 0 .. (concurrency - 2) : rangeStart(i + 1) = rangeEnd(i) + 1
    /\ \A i, j \in Idx : i < j => rangeEnd(i) < rangeStart(j)
    /\ UNION {rangeStart(i) .. rangeEnd(i) : i \in Idx} = 0 .. (contentLength - 1)
    /\ SumRangeLen(concurrency) = contentLength
    /\ ppc # "start" =>
          /\ DOMAIN chunks = 0 .. (concurrency - 1)
          /\ DOMAIN p = 0 .. (concurrency - 1)
          /\ \A i \in Idx : p[i].total = rangeLen(i)

\* Two ranges planned for a length that two does not divide: the last range
\* is the longer one.
C14_Witness ==
    /\ ppc = "bar"
    /\ concurrency = 2
    /\ contentLength = 7
    /\ p[0].total = 3
    /\ p[1].total = 4

\* C15: a write that fails or stores fewer bytes than were read ends the fetch:
\* once a chunk file holds fewer bytes than its fetcher has read, the fetcher
\* does not go back to reading, curr of its index counts no byte that is not in
\* the file, its result is an error, and that error reaches sum.err.
C15_WriteErrorStops ==
    \A i \in DOMAIN p :
        Len(chunks[i].data) < bodyPos[i] =>
            /\ fpc[i] # "loop"
            /\ p[i].curr <= Len(chunks[i].data)
            /\ fpc[i] \in {"record", "exit", "done"} => ferr[i] # Nil
            /\ recorded(i) => err # Nil

\* C16: a fetcher whose response has a status other than 200 and 206 ends with
\* the unexpected-status error, which it stores in sum.err, and it has read
\* nothing from the body, written no byte to its chunk file and left its
\* progress entry as download created it.
C16_BadStatusNoWrite ==
    /\ [](\A i \in DOMAIN p :
             (status[i] # 0 /\ status[i] # 200 /\ status[i] # 206) =>
                 /\ fpc[i] \in {"record", "exit", "done"}
                 /\ ferr[i] = Error("status", i)
                 /\ bodyPos[i] = 0
                 /\ chunks[i] = [data |-> << >>, pos |-> 0]
                 /\ p[i] = [curr |-> 0, total |-> rangeLen(i)]
                 /\ recorded(i) => err # Nil)
    /\ [][\A i \in DOMAIN p :
             (status[i] \notin {0, 200, 206} /\ fpc[i] = "record" /\ fpc'[i] = "exit") =>
                 err' = Error("status", i)]_vars

\* Chunk 0 was refused with 404 while chunk 1 was fetched, and process has
\* returned the status error.
C16_Witness ==
    /\ concurrency = 2
    /\ status[0] = 404
    /\ fpc[0] = "done"
    /\ chunks[1].data # << >>
    /\ ppc = "done"
    /\ ret = Error("status", 0)

\* C17: once a fetcher has taken the stop signal from sum.stop, that fetcher
\* has ended with ErrGracefulShutdown and reads nothing more, writes nothing
\* more to its chunk file and adds nothing more to its progress entry; the error
\* reaches sum.err, combineChunks is never called, process returns an error and
\* no final file appears.
C17_StoppedJobNoFile ==
    /\ []((signalled /\ ~stopPending) =>
             /\ \E i \in DOMAIN p :
                    ferr[i].kind = "shutdown" /\ fpc[i] \in {"record", "exit", "done"}
             /\ \A i \in DOMAIN p :
                    (ferr[i].kind = "shutdown" /\ recorded(i)) => err # Nil
             /\ ~combineInvoked
             /\ ppc = "done" => ret # Nil
             /\ finalFile = Absent)
    /\ [][\A i \in DOMAIN p :
             ferr[i].kind = "shutdown" =>
                 /\ bodyPos'[i] = bodyPos[i]
                 /\ chunks'[i] = chunks[i]
                 /\ p'[i] = p[i]]_vars

\* Fetcher 0 took the stop signal after it had written part of its chunk,
\* fetcher 1 ran to the end of its body, and process returned the shutdown error.
C17_Witness ==
    /\ concurrency = 2
    /\ ferr[0] = ErrGracefulShutdown(0)
    /\ chunks[0].data # << >>
    /\ fpc[1] = "done"
    /\ ferr[1] = Nil
    /\ ppc = "done"
    /\ ret = ErrGracefulShutdown(0)

\* C18: a step of fetcher i leaves the chunk file and the progress entry (curr
\* and total) of every other index as they were, and no step changes the total
\* of any progress entry.
C18_FetcherFrame ==
    [][\A i \in DOMAIN p :
          /\ p'[i].total = p[i].total
          /\ fpc'[i] # fpc[i] =>
                \A j \in DOMAIN p \ {i} : chunks'[j] = chunks[j] /\ p'[j] = p[j]]_vars

\* Both fetchers are in their read loops and each has written to its own file
\* and counted on its own entry.
C18_Witness ==
    /\ concurrency = 2
    /\ \A i \in Idx :
          /\ fpc[i] = "loop"
          /\ chunks[i].data # << >>
          /\ p[i].curr > 0

\* C19: the bar printProgress draws for an entry with 0 <= curr <= total and
\* total > 0 has progressSize cells, of which floor(percent / 100 * progressSize)
\* are filled, percent being round(curr / total * 100); at 0 percent no cell is
\* filled.
C19_FilledCells ==
    (rpc \in {"final", "done"} /\ rIdx > 0 /\ progressSize >= 1
        /\ p[rIdx - 1].total > 0 /\ p[rIdx - 1].curr \in 0 .. p[rIdx - 1].total) =>
        LET curr    == p[rIdx - 1].curr
            total   == p[rIdx - 1].total
            pct     == (200 * curr + total) \div (2 * total)
            filled  == Cardinality({c \in DOMAIN bar : bar[c] = ">"})
        IN  /\ Len(bar) = progressSize
            /\ filled = (pct * progressSize) \div 100
            /\ pct = 0 => filled = 0

\* C20: once the downloader has launched the fetchers without an error, process
\* reaches its return: the fetchers end and are joined, the send on stop is
\* received by the renderer, the renderer returns and releases its wait group,
\* and process returns.
C20_ProcessTerminates == (ppc = "bar") ~> (ppc = "done")

\* Two fetchers were launched and have ended, the renderer has printed its
\* final frame and returned, and process has returned after the rename.
C20_Witness ==
    /\ concurrency = 2
    /\ \A i \in Idx : fpc[i] = "done"
    /\ rpc = "done"
    /\ pWg = 0
    /\ ppc = "done"
    /\ ret = Nil
    /\ finalFile # Absent

====
